---- MODULE Spec2Model ----
(***************************************************************************)
(* Model of src/app.py: the /upload handler (raw audio -> WAV -> Vosk ->   *)
(* AssemblyAI fallback -> analysis -> local files -> Firebase) run by      *)
(* concurrent requests that share the module-level file paths.             *)
(*                                                                         *)
(* A text is a sequence of one-character strings, so that str.split(),     *)
(* str.lower() and str.strip() are computed character by character.        *)
(***************************************************************************)
EXTENDS Integers, Sequences, FiniteSets, TLC

\* ------------------------------------------------------------------ bounds

\* Largest upload, in bytes (0 = empty, odd = not a whole number of samples).
MaxBytes == 2
\* datetime.now() shows the seconds 0..MaxClock.
MaxClock == 1
\* Longest input of the analysis specification, in fragments.
MaxPieces == 4

\* The concurrent requests.
Runs == {1, 2}

None == "none"
\* no file at the path, no bytes read yet
NoAudio == [owner |-> 0, nbytes |-> 0]
NoWav == [owner |-> 0, nframes |-> 0]
\* a text variable that holds no text yet, and one whose call raised
NoText == <<"<unset>">>
Raised == <<"<raised>">>

\* ------------------------------------------------------ program constants

\* len(text.split()) < 5
MinWords == 5
\* wav_file.setsampwidth(2); dtype=np.int16
SampleWidth == 2
\* max(100 - ..., 0)
FullScore == 100
\* ... * 2
Penalty == 2

\* ------------------------------------------------------------ characters

Whitespace == {" ", "\t", "\n", "\r", "\f"}

StripChars == {".", ",", "!", "?", ";", ":", "\"", "'", "(", ")", "[", "]", "{", "}"}

UpperLetters ==
  <<"A","B","C","D","E","F","G","H","I","J","K","L","M",
    "N","O","P","Q","R","S","T","U","V","W","X","Y","Z">>

LowerLetters ==
  <<"a","b","c","d","e","f","g","h","i","j","k","l","m",
    "n","o","p","q","r","s","t","u","v","w","x","y","z">>

UpperSet == {UpperLetters[i] : i \in 1..26}

\* the lower-case letter of each upper-case letter
toLower == [c \in UpperSet |-> LowerLetters[CHOOSE i \in 1..26 : UpperLetters[i] = c]]

\* str.lower() on one character
lowerChar(c) == IF c \in UpperSet THEN toLower[c] ELSE c

\* str.lower()
lower(w) == [i \in 1..Len(w) |-> lowerChar(w[i])]

\* str.strip(chars): drop the leading and trailing characters that are in chars
strip(w, chars) ==
  LET keep == {i \in 1..Len(w) : w[i] \notin chars}
  IN IF keep = {} THEN <<>>
     ELSE LET lo == CHOOSE i \in keep : \A j \in keep : i <= j
              hi == CHOOSE i \in keep : \A j \in keep : j <= i
          IN SubSeq(w, lo, hi)

\* the scan of str.split() from position i on, acc being the words read:
\* skip the whitespace, read the word up to the next whitespace, go on
\* (the next acc is bound as a, so it is computed once)
RECURSIVE splitFrom(_, _, _)
splitFrom(s, i, acc) ==
  IF \A j \in i..Len(s) : s[j] \in Whitespace THEN acc
  ELSE LET lo == CHOOSE j \in i..Len(s) :
                   s[j] \notin Whitespace /\ \A k \in i..(j - 1) : s[k] \in Whitespace
           hi == IF \A j \in lo..Len(s) : s[j] \notin Whitespace THEN Len(s) + 1
                 ELSE CHOOSE j \in lo..Len(s) :
                        s[j] \in Whitespace /\ \A k \in lo..(j - 1) : s[k] \notin Whitespace
       IN CHOOSE words \in
            { splitFrom(s, hi, a) : a \in {Append(acc, SubSeq(s, lo, hi - 1))} } : TRUE

\* str.split() with no argument: the maximal runs of non-whitespace
split(s) == CHOOSE words \in {splitFrom(t, 1, <<>>) : t \in {s}} : TRUE

\* word.lower().strip(".,!?;:\"'()[]{}")
normalize(word) == strip(lower(word), StripChars)

\* dict.get(key, default)
get(d, k, default) == IF k \in DOMAIN d THEN d[k] ELSE default

\* ------------------------------------------------------------- the words

uh == <<"u","h">>
ah == <<"a","h">>
um == <<"u","m">>
so == <<"s","o">>
because == <<"b","e","c","a","u","s","e">>

\* {"uh", "ah", "um", "so", "because"}
FillerWords == {uh, ah, um, so, because}

\* ------------------------------------------------------------- analysis

\* word_count[word] = word_count.get(word, 0) + 1
bump(wc, word) ==
  [w \in DOMAIN wc \cup {word} |-> IF w = word THEN get(wc, word, 0) + 1 ELSE wc[w]]

\* the loop of analyze_and_push from word i on, word_count being wc
\* (the next word_count is bound as next, so it is computed once)
RECURSIVE countFrom(_, _, _)
countFrom(words, i, wc) ==
  IF i > Len(words) THEN wc
  ELSE CHOOSE result \in
         { countFrom(words, i + 1, next) : next \in {bump(wc, normalize(words[i]))} } : TRUE

\* the loop of analyze_and_push that fills word_count
word_count(words) == CHOOSE result \in {countFrom(ws, 1, <<>>) : ws \in {words}} : TRUE

\* {w: c for w, c in word_count.items() if c > 1}
repetitiveOf(wc) == [w \in {x \in DOMAIN wc : wc[x] > 1} |-> wc[w]]

\* fillerOf that lists only the vocabulary words the text contains
fillerOfPresent(wc) == [w \in FillerWords \cap DOMAIN wc |-> wc[w]]

\* {w: word_count.get(w, 0) for w in {...}}
fillerOf(wc) == [w \in FillerWords |-> get(wc, w, 0)]

\* sum(filler.values())
RECURSIVE sumOver(_, _)
sumOver(d, keys) ==
  IF keys = {} THEN 0
  ELSE LET k == CHOOSE x \in keys : TRUE
       IN d[k] + sumOver(d, keys \ {k})

sumValues(d) == sumOver(d, DOMAIN d)

max(a, b) == IF a >= b THEN a ELSE b

\* analysis whose total leaves out the tokens that normalize to ""
analysisNonEmptyTotal(t) ==
  LET words == split(t)
      wc == word_count(words)
  IN [repetitive_words |-> repetitiveOf(wc),
      filler_words |-> fillerOf(wc),
      total_word_count |-> Len(SelectSeq(words, LAMBDA w : normalize(w) # <<>>))]

\* repetitive, filler and total as analyze_and_push computes them from text
analysis(t) ==
  LET words == split(t)
      wc == word_count(words)
  IN [repetitive_words |-> repetitiveOf(wc),
      filler_words |-> fillerOf(wc),
      total_word_count |-> Len(words)]

\* pres_score that takes one point, not two, for each repeated word
pres_scoreByOne(repetitive) == max(FullScore - Cardinality(DOMAIN repetitive), 0)

\* max(100 - len(repetitive) * 2, 0)
pres_score(repetitive) == max(FullScore - Cardinality(DOMAIN repetitive) * Penalty, 0)

\* time_score without the floor at 0
time_scoreNoFloor(filler) == FullScore - sumValues(filler) * Penalty

\* max(100 - sum(filler.values()) * 2, 0)
time_score(filler) == max(FullScore - sumValues(filler) * Penalty, 0)

\* (pres_score + time_score) / 2 is a true division: the value is
\* whole + halves/2, with halves in {0, 1}.
overall(p, t) == [whole |-> (p + t) \div 2, halves |-> (p + t) % 2]

\* the three scores written to the summary file and to the store
summaryOf(fb) ==
  LET p == pres_score(fb.repetitive_words)
      t == time_score(fb.filler_words)
  IN [presentation_score |-> p, time_score |-> t, overall_score |-> overall(p, t)]

\* ------------------------------------------------------------ transcripts

sp == <<" ">>
please == <<"p","l","e","a","s","e">>
move == <<"m","o","v","e">>
on == <<"o","n">>

\* ""
EmptyText == <<>>
\* "so um": 2 words
ShortText == so \o sp \o um
\* "So, so um uh ah.": exactly 5 words, exactly 5 filler occurrences
FiveText == <<"S","o",",">> \o sp \o so \o sp \o um \o sp \o uh \o sp \o ah \o <<".">>
\* "so so so um um uh": 6 words, 6 filler occurrences
FillerText == so \o sp \o so \o sp \o so \o sp \o um \o sp \o um \o sp \o uh
\* "on": 1 word
OneText == on
\* "please move on so um": 5 words
CloudText == please \o sp \o move \o sp \o on \o sp \o so \o sp \o um

\* what the Vosk recognizer may answer for a WAV that holds frames
LocalTexts == {ShortText, FiveText, FillerText}

\* what AssemblyAI may answer in the text of a completed transcript
CloudTexts == {OneText, CloudText}

\* ------------------------------------------------------------------ state

VARIABLES
  pc,                 \* where each request is in upload_audio
  upload,             \* the bytes each request brought (request.files['file'])
  rawFile,            \* recorded_audio.raw
  wavFile,            \* audio_file.wav
  raw_data,           \* convert_to_wav's raw_data, while convert_to_wav runs
  text,               \* upload_audio's text
  vosk_text,          \* what transcribe_with_vosk returned to this request
  heard_vosk,         \* whose audio the recognizer read for this request
  heard_cloud,        \* whose audio this request uploaded to AssemblyAI
  cloud_uploads,      \* POSTs to /v2/upload made by this request
  cloud_submits,      \* POSTs to /v2/transcript made by this request
  status,             \* transcribe_with_assemblyai's status
  response,           \* what upload_audio returned
  transcriptionFile,  \* transcription.txt
  feedbackFile,       \* feedback_file.txt, as the text its content was computed from
  summaryFile,        \* summary.txt, as the text its content was computed from
  clock,              \* the latest second datetime.now() has returned
  store,              \* guidpro_results/user_1/session_<second>, as the text of the document
  store_writes        \* ref.set calls that completed, per request

vars == <<pc, upload, rawFile, wavFile, raw_data, text, vosk_text, heard_vosk,
          heard_cloud, cloud_uploads, cloud_submits, status, response,
          transcriptionFile, feedbackFile, summaryFile, clock, store, store_writes>>

audioVars == <<upload, rawFile, wavFile, raw_data>>
engineVars == <<vosk_text, heard_vosk, heard_cloud, cloud_uploads, cloud_submits, status>>
fileVars == <<transcriptionFile, feedbackFile, summaryFile>>
storeVars == <<clock, store, store_writes>>

\* the request has not been answered
NoResponse == [code |-> 0, error |-> None, transcript |-> NoText]

\* The text files exist and are empty, the store holds no session (<<>>: nothing
\* written, <<t>>: written from the text t; feedbackContent, summaryContent and
\* document give what was written); no audio has been received.
Init ==
  /\ pc = [r \in Runs |-> "idle"]
  /\ upload = [r \in Runs |-> NoAudio]
  /\ rawFile = NoAudio
  /\ wavFile = NoWav
  /\ raw_data = [r \in Runs |-> NoAudio]
  /\ text = [r \in Runs |-> NoText]
  /\ vosk_text = [r \in Runs |-> NoText]
  /\ heard_vosk = [r \in Runs |-> 0]
  /\ heard_cloud = [r \in Runs |-> 0]
  /\ cloud_uploads = [r \in Runs |-> 0]
  /\ cloud_submits = [r \in Runs |-> 0]
  /\ status = [r \in Runs |-> None]
  /\ response = [r \in Runs |-> NoResponse]
  /\ transcriptionFile = EmptyText
  /\ feedbackFile = <<>>
  /\ summaryFile = <<>>
  /\ clock = 0
  /\ store = [k \in 0..MaxClock |-> <<>>]
  /\ store_writes = [r \in Runs |-> 0]

\* ---------------------------------------------------------------- helpers

goto(r, label) == pc' = [pc EXCEPT ![r] = label]

\* return jsonify({"error": ...}), 400
reply400(r, msg) ==
  response' = [response EXCEPT ![r] = [code |-> 400, error |-> msg, transcript |-> NoText]]

\* except Exception as e: return jsonify({"error": str(e)}), 500
reply500(r, msg) ==
  response' = [response EXCEPT ![r] = [code |-> 500, error |-> msg, transcript |-> NoText]]

\* return jsonify({"message": ..., "transcript": text})
reply200(r, t) ==
  response' = [response EXCEPT ![r] = [code |-> 200, error |-> None, transcript |-> t]]

\* -------------------------------------------------------------- upload_audio

\* 'file' not in request.files, or file.filename == ''
RejectRequest(r) ==
  /\ pc[r] = "idle"
  /\ \E msg \in {"No file part in request", "No selected file"} : reply400(r, msg)
  /\ goto(r, "done")
  /\ UNCHANGED <<audioVars, text, engineVars, fileVars, storeVars>>

\* file.save(raw_audio_path)
SaveUpload(r) ==
  /\ pc[r] = "idle"
  /\ \E n \in 0..MaxBytes :
       /\ upload' = [upload EXCEPT ![r] = [owner |-> r, nbytes |-> n]]
       /\ rawFile' = [owner |-> r, nbytes |-> n]
  /\ goto(r, "convert_read")
  /\ UNCHANGED <<wavFile, raw_data, text, engineVars, response, fileVars, storeVars>>

\* convert_to_wav: read the raw file, np.frombuffer(raw_data, dtype=np.int16);
\* a length that is no multiple of the sample width raises, which is logged
\* only: convert_to_wav returns and audio_file.wav is left as it was
ConvertRead(r) ==
  /\ pc[r] = "convert_read"
  /\ IF rawFile.nbytes % SampleWidth # 0
     THEN raw_data' = raw_data /\ goto(r, "vosk")
     ELSE raw_data' = [raw_data EXCEPT ![r] = rawFile] /\ goto(r, "convert_write")
  /\ UNCHANGED <<upload, rawFile, wavFile, text, engineVars, response, fileVars, storeVars>>

\* convert_to_wav: wave.open(wav_audio_path, 'wb') ... writeframes
ConvertWrite(r) ==
  /\ pc[r] = "convert_write"
  /\ wavFile' = [owner |-> raw_data[r].owner, nframes |-> raw_data[r].nbytes \div SampleWidth]
  /\ raw_data' = [raw_data EXCEPT ![r] = NoAudio]
  /\ goto(r, "vosk")
  /\ UNCHANGED <<upload, rawFile, text, engineVars, response, fileVars, storeVars>>

\* needsCloud with the test written "at or below the minimum"
needsCloudAtOrBelow(t) == Len(split(t)) <= MinWords

\* the branch upload_audio takes on the local text
needsCloud(t) == Len(split(t)) < MinWords

\* transcribe_with_vosk raises: the model cannot be downloaded or loaded, or
\* audio_file.wav does not exist; upload_audio's except answers 500
VoskRaises(r) ==
  /\ pc[r] = "vosk"
  /\ vosk_text' = [vosk_text EXCEPT ![r] = Raised]
  /\ reply500(r, "vosk")
  /\ goto(r, "done")
  /\ UNCHANGED <<audioVars, text, heard_vosk, heard_cloud, cloud_uploads, cloud_submits,
                 status, fileVars, storeVars>>

\* transcribe_with_vosk returns the recognizer's text for the frames in
\* audio_file.wav ("" when there are none), then upload_audio tests its length
VoskReturns(r) ==
  /\ pc[r] = "vosk"
  /\ wavFile # NoWav
  /\ \E t \in (IF wavFile.nframes = 0 THEN {EmptyText} ELSE LocalTexts) :
       /\ vosk_text' = [vosk_text EXCEPT ![r] = t]
       /\ text' = [text EXCEPT ![r] = t]
       /\ goto(r, IF needsCloud(t) THEN "cloud_upload" ELSE "write_transcription")
  /\ heard_vosk' = [heard_vosk EXCEPT ![r] = wavFile.owner]
  /\ UNCHANGED <<audioVars, heard_cloud, cloud_uploads, cloud_submits, status, response,
                 fileVars, storeVars>>

\* ------------------------------------------------ transcribe_with_assemblyai

\* requests.post('.../v2/upload', files={'file': f})
CloudUpload(r) ==
  /\ pc[r] = "cloud_upload"
  /\ wavFile # NoWav
  /\ heard_cloud' = [heard_cloud EXCEPT ![r] = wavFile.owner]
  /\ cloud_uploads' = [cloud_uploads EXCEPT ![r] = @ + 1]
  /\ goto(r, "cloud_submit")
  /\ UNCHANGED <<audioVars, text, vosk_text, heard_vosk, cloud_submits, status, response,
                 fileVars, storeVars>>

\* requests.post('.../v2/transcript', json={'audio_url': upload_url})
CloudSubmit(r) ==
  /\ pc[r] = "cloud_submit"
  /\ cloud_submits' = [cloud_submits EXCEPT ![r] = @ + 1]
  /\ goto(r, "poll")
  /\ UNCHANGED <<audioVars, text, vosk_text, heard_vosk, heard_cloud, cloud_uploads, status,
                 response, fileVars, storeVars>>

\* Poll that keeps the local text when the completed transcript is shorter
PollKeepsLonger(r) ==
  /\ pc[r] = "poll"
  /\ \/ \E t \in CloudTexts :
          /\ status' = [status EXCEPT ![r] = "completed"]
          /\ text' = [text EXCEPT ![r] =
                        IF Len(split(t)) < Len(split(vosk_text[r])) THEN vosk_text[r] ELSE t]
          /\ goto(r, "write_transcription")
     \/ /\ status' = [status EXCEPT ![r] = "failed"]
        /\ text' = [text EXCEPT ![r] = EmptyText]
        /\ goto(r, "write_transcription")
     \/ /\ status' = [status EXCEPT ![r] = "processing"]
        /\ text' = text
        /\ goto(r, "sleep")
  /\ UNCHANGED <<audioVars, vosk_text, heard_vosk, heard_cloud, cloud_uploads, cloud_submits,
                 response, fileVars, storeVars>>

\* one turn of the while True loop: requests.get('.../v2/transcript/<id>')
Poll(r) ==
  /\ pc[r] = "poll"
  /\ \/ \E t \in CloudTexts :
          /\ status' = [status EXCEPT ![r] = "completed"]
          /\ text' = [text EXCEPT ![r] = t]
          /\ goto(r, "write_transcription")
     \/ /\ status' = [status EXCEPT ![r] = "failed"]
        /\ text' = [text EXCEPT ![r] = EmptyText]
        /\ goto(r, "write_transcription")
     \/ /\ status' = [status EXCEPT ![r] = "processing"]
        /\ text' = text
        /\ goto(r, "sleep")
  /\ UNCHANGED <<audioVars, vosk_text, heard_vosk, heard_cloud, cloud_uploads, cloud_submits,
                 response, fileVars, storeVars>>

\* Sleep that submits the transcript job again before polling
SleepResubmits(r) ==
  /\ pc[r] = "sleep"
  /\ goto(r, "cloud_submit")
  /\ UNCHANGED <<audioVars, text, engineVars, response, fileVars, storeVars>>

\* time.sleep(3), then the loop polls again
Sleep(r) ==
  /\ pc[r] = "sleep"
  /\ goto(r, "poll")
  /\ UNCHANGED <<audioVars, text, engineVars, response, fileVars, storeVars>>

\* a call to AssemblyAI raises (no network, bad key, no 'upload_url', 'id' or
\* 'status' in the answer); nothing in transcribe_with_assemblyai catches it,
\* upload_audio's except answers 500
CloudRaises(r) ==
  /\ pc[r] \in {"cloud_upload", "cloud_submit", "poll"}
  /\ cloud_uploads' = [cloud_uploads EXCEPT ![r] = IF pc[r] = "cloud_upload" THEN @ + 1 ELSE @]
  /\ cloud_submits' = [cloud_submits EXCEPT ![r] = IF pc[r] = "cloud_submit" THEN @ + 1 ELSE @]
  /\ status' = [status EXCEPT ![r] = "raised"]
  /\ reply500(r, "assemblyai")
  /\ goto(r, "done")
  /\ UNCHANGED <<audioVars, text, vosk_text, heard_vosk, heard_cloud, fileVars, storeVars>>

\* ----------------------------------------------------------- analyze_and_push

\* with open(transcription_path, 'w') as f: f.write(text)
WriteTranscription(r) ==
  /\ pc[r] = "write_transcription"
  /\ transcriptionFile' = text[r]
  /\ goto(r, "save_feedback")
  /\ UNCHANGED <<audioVars, text, engineVars, response, feedbackFile, summaryFile, storeVars>>

\* save_feedback(repetitive, filler, total)
save_feedback(r) ==
  /\ pc[r] = "save_feedback"
  /\ feedbackFile' = <<text[r]>>
  /\ goto(r, "save_summary")
  /\ UNCHANGED <<audioVars, text, engineVars, response, transcriptionFile, summaryFile, storeVars>>

\* save_summary(total, filler, repetitive)
save_summary(r) ==
  /\ pc[r] = "save_summary"
  /\ summaryFile' = <<text[r]>>
  /\ goto(r, "push")
  /\ UNCHANGED <<audioVars, text, engineVars, response, transcriptionFile, feedbackFile, storeVars>>

\* the document ref.set receives
record(t) ==
  LET fb == analysis(t)
  IN [transcription |-> t, feedback |-> fb, summary |-> summaryOf(fb)]

\* the session documents in the store, by second
document == [k \in {j \in DOMAIN store : store[j] # <<>>} |-> record(store[k][1])]

\* what save_feedback wrote: repetitive, filler, total
feedbackContent == IF feedbackFile = <<>> THEN <<>> ELSE <<analysis(feedbackFile[1])>>

\* what save_summary wrote: the three scores
summaryContent == IF summaryFile = <<>> THEN <<>> ELSE <<summaryOf(analysis(summaryFile[1]))>>

\* Push that publishes the text read back from the shared transcription file
PushFromFile(r) ==
  /\ pc[r] = "push"
  /\ \E now \in clock..MaxClock :
       /\ clock' = now
       /\ store' = [store EXCEPT ![now] = <<transcriptionFile>>]
  /\ store_writes' = [store_writes EXCEPT ![r] = @ + 1]
  /\ reply200(r, text[r])
  /\ goto(r, "done")
  /\ UNCHANGED <<audioVars, text, engineVars, fileVars>>

\* Push that answers 200 without writing to the store
PushSkipsWrite(r) ==
  /\ pc[r] = "push"
  /\ \E now \in clock..MaxClock : clock' = now
  /\ reply200(r, text[r])
  /\ goto(r, "done")
  /\ UNCHANGED <<audioVars, text, engineVars, fileVars, store, store_writes>>

\* session_id from datetime.now() (the second now, no earlier than the last
\* one read), ref.set({...}) succeeds, upload_audio answers 200
Push(r) ==
  /\ pc[r] = "push"
  /\ \E now \in clock..MaxClock :
       /\ clock' = now
       /\ store' = [store EXCEPT ![now] = <<text[r]>>]
  /\ store_writes' = [store_writes EXCEPT ![r] = @ + 1]
  /\ reply200(r, text[r])
  /\ goto(r, "done")
  /\ UNCHANGED <<audioVars, text, engineVars, fileVars>>

\* ref.set raises (store unreachable); upload_audio's except answers 500
PushRaises(r) ==
  /\ pc[r] = "push"
  /\ reply500(r, "firebase")
  /\ goto(r, "done")
  /\ UNCHANGED <<audioVars, text, engineVars, fileVars, storeVars>>

\* everything one request can do next
step(r) ==
  \/ RejectRequest(r) \/ SaveUpload(r) \/ ConvertRead(r) \/ ConvertWrite(r)
  \/ VoskRaises(r) \/ VoskReturns(r)
  \/ CloudUpload(r) \/ CloudSubmit(r) \/ Poll(r) \/ Sleep(r) \/ CloudRaises(r)
  \/ WriteTranscription(r) \/ save_feedback(r) \/ save_summary(r)
  \/ Push(r) \/ PushRaises(r)

Next == \E r \in Runs : step(r)

Spec == Init /\ [][Next]_vars

\* ------------------------------------------------------- the cloud fallback

\* the request that wrote the shared audio files last
lastRun == CHOOSE r \in Runs : \A q \in Runs : q <= r

\* Every request has uploaded one sample, one after the other, and the
\* recognizer has answered each with a text too short to keep: all of them are
\* about to call AssemblyAI.
InitCloud ==
  /\ pc = [r \in Runs |-> "cloud_upload"]
  /\ upload = [r \in Runs |-> [owner |-> r, nbytes |-> SampleWidth]]
  /\ rawFile = [owner |-> lastRun, nbytes |-> SampleWidth]
  /\ wavFile = [owner |-> lastRun, nframes |-> 1]
  /\ raw_data = [r \in Runs |-> NoAudio]
  /\ text = [r \in Runs |-> ShortText]
  /\ vosk_text = [r \in Runs |-> ShortText]
  /\ heard_vosk = [r \in Runs |-> r]
  /\ heard_cloud = [r \in Runs |-> 0]
  /\ cloud_uploads = [r \in Runs |-> 0]
  /\ cloud_submits = [r \in Runs |-> 0]
  /\ status = [r \in Runs |-> None]
  /\ response = [r \in Runs |-> NoResponse]
  /\ transcriptionFile = EmptyText
  /\ feedbackFile = <<>>
  /\ summaryFile = <<>>
  /\ clock = 0
  /\ store = [k \in 0..MaxClock |-> <<>>]
  /\ store_writes = [r \in Runs |-> 0]

\* what a request does from the fallback on
stepCloud(r) ==
  \/ CloudUpload(r) \/ CloudSubmit(r) \/ Poll(r) \/ Sleep(r) \/ CloudRaises(r)
  \/ WriteTranscription(r) \/ save_feedback(r) \/ save_summary(r)
  \/ Push(r) \/ PushRaises(r)

NextCloud == \E r \in Runs : stepCloud(r)

\* Flask serves each request on its own thread and the threads are scheduled
\* fairly: a request that can take a step eventually takes one.
SpecCloud == InitCloud /\ [][NextCloud]_vars /\ \A r \in Runs : WF_vars(stepCloud(r))

\* ------------------------------------------------------ analysis inputs

\* pieces of transcript: plain, capitalised and punctuated words, a token made
\* of punctuation only, and extra whitespace
Fragments ==
  { so \o sp,
    <<"S","o",",">> \o sp,
    um \o sp,
    <<"(","u","h",")">> \o <<"\n">>,
    <<".",".",".">> \o sp,
    <<"\t">> }

RECURSIVE concat(_)
concat(ps) == IF ps = <<>> THEN <<>> ELSE Head(ps) \o concat(Tail(ps))

\* "so so so um please move on"
ExampleText ==
  so \o sp \o so \o sp \o so \o sp \o um \o sp \o please \o sp \o move \o sp \o on

\* "so " 51 times: 51 filler occurrences, one more than the time score can
\* pay for
FloorText == concat([i \in 1..51 |-> so \o sp])

AnalysisTexts ==
  {concat(ps) : ps \in UNION {[1..n -> Fragments] : n \in 0..MaxPieces}}
    \cup {ExampleText, FloorText}

\* Request 1 has fallen back to AssemblyAI, which answered the text to analyse;
\* the other requests have not arrived.
InitAnalyze ==
  /\ pc = [r \in Runs |-> IF r = 1 THEN "write_transcription" ELSE "idle"]
  /\ upload = [r \in Runs |-> IF r = 1 THEN [owner |-> 1, nbytes |-> SampleWidth] ELSE NoAudio]
  /\ rawFile = [owner |-> 1, nbytes |-> SampleWidth]
  /\ wavFile = [owner |-> 1, nframes |-> 1]
  /\ raw_data = [r \in Runs |-> NoAudio]
  /\ \E t \in AnalysisTexts : text = [r \in Runs |-> IF r = 1 THEN t ELSE NoText]
  /\ vosk_text = [r \in Runs |-> IF r = 1 THEN ShortText ELSE NoText]
  /\ heard_vosk = [r \in Runs |-> IF r = 1 THEN 1 ELSE 0]
  /\ heard_cloud = [r \in Runs |-> IF r = 1 THEN 1 ELSE 0]
  /\ cloud_uploads = [r \in Runs |-> IF r = 1 THEN 1 ELSE 0]
  /\ cloud_submits = [r \in Runs |-> IF r = 1 THEN 1 ELSE 0]
  /\ status = [r \in Runs |-> IF r = 1 THEN "completed" ELSE None]
  /\ response = [r \in Runs |-> NoResponse]
  /\ transcriptionFile = EmptyText
  /\ feedbackFile = <<>>
  /\ summaryFile = <<>>
  /\ clock = 0
  /\ store = [k \in 0..MaxClock |-> <<>>]
  /\ store_writes = [r \in Runs |-> 0]

\* analyze_and_push, step by step
NextAnalyze ==
  \E r \in Runs :
    \/ WriteTranscription(r) \/ save_feedback(r) \/ save_summary(r)
    \/ Push(r) \/ PushRaises(r)

SpecAnalyze == InitAnalyze /\ [][NextAnalyze]_vars

\* ------------------------------------------------------------- properties

\* the words of a text, normalized, by position
normalizedWords(t) ==
  LET ws == split(t) IN [i \in 1..Len(ws) |-> normalize(ws[i])]

\* how many words of t are filler words
fillerOccurrences(t) ==
  LET ws == normalizedWords(t) IN Cardinality({i \in DOMAIN ws : ws[i] \in FillerWords})

\* transcribe_with_vosk returned a text to request r
voskReturned(r) == vosk_text[r] # NoText /\ vosk_text[r] # Raised

\* request r has called AssemblyAI
cloudInvoked(r) == cloud_uploads[r] > 0 \/ cloud_submits[r] > 0 \/ status[r] # None

\* C1: a request whose local transcript has at least 5 words (exactly 5
\* included) and at most 5 filler occurrences never calls AssemblyAI, and its
\* transcript stays the local text.
C1_LocalAcceptedNoCloud ==
  \A r \in Runs :
    (/\ voskReturned(r)
     /\ Len(split(vosk_text[r])) >= 5
     /\ fillerOccurrences(vosk_text[r]) <= 5)
    => (/\ ~cloudInvoked(r)
        /\ heard_cloud[r] = 0
        /\ text[r] = vosk_text[r]
        /\ response[r].code = 200 => response[r].transcript = vosk_text[r])

\* C1 witness: a local transcript of exactly 5 words and 5 fillers was
\* answered to the caller
C1_Witness ==
  \E r \in Runs :
    /\ voskReturned(r)
    /\ Len(split(vosk_text[r])) = 5
    /\ fillerOccurrences(vosk_text[r]) = 5
    /\ response[r].code = 200
    /\ response[r].transcript = vosk_text[r]

\* C2: once a request whose local transcript has fewer than 5 words or more
\* than 5 filler occurrences has left the local attempt, it has called
\* AssemblyAI.
C2_RejectedGoesToCloud ==
  \A r \in Runs :
    (/\ voskReturned(r)
     /\ pc[r] # "vosk"
     /\ \/ Len(split(vosk_text[r])) < 5
        \/ fillerOccurrences(vosk_text[r]) > 5)
    => (pc[r] = "cloud_upload" \/ cloudInvoked(r))

\* C3: every request is answered, also when every poll reports a status that
\* is neither completed nor failed.
C3_EveryRunAnswered == \A r \in Runs : <>(response[r] # NoResponse)

\* C4: a request whose local engine raised is not ended by it: it calls
\* AssemblyAI.
C4_LocalFailureGoesToCloud ==
  \A r \in Runs :
    vosk_text[r] = Raised => (pc[r] # "done" \/ cloudInvoked(r))

\* C5: the audio an engine receives from a request is that request's upload.
C5_OwnAudioOnly ==
  \A r \in Runs : heard_vosk[r] \in {0, r} /\ heard_cloud[r] \in {0, r}

\* an upload that is empty or no whole number of samples
malformed(r) ==
  /\ upload[r] # NoAudio
  /\ upload[r].nbytes = 0 \/ upload[r].nbytes % SampleWidth # 0

\* C6: a request with a malformed upload hands no audio to either engine and
\* is answered with an error.
C6_MalformedAborts ==
  \A r \in Runs :
    malformed(r) =>
      /\ heard_vosk[r] = 0
      /\ ~cloudInvoked(r)
      /\ pc[r] = "done" => response[r].code = 500

\* C7: when the store write fails, the answer still carries the transcript.
C7_StoreFailureKeepsResults ==
  \A r \in Runs :
    response[r].error = "firebase" => response[r].transcript = text[r]

\* C8: a request whose poll reported failed ends with the empty transcript,
\* one published record and a normal answer.
C8_CloudFailedStillAnswers ==
  \A r \in Runs :
    (status[r] = "failed" /\ pc[r] = "done") =>
      /\ text[r] = EmptyText
      /\ store_writes[r] = 1
      /\ response[r].code = 200
      /\ response[r].transcript = EmptyText

\* C9: a request whose call to AssemblyAI raised is not answered with an error.
C9_CloudUnavailableIsCaught ==
  \A r \in Runs :
    (status[r] = "raised" /\ pc[r] = "done") =>
      /\ text[r] = EmptyText
      /\ response[r].code # 500

\* C10: in every published record and in the feedback file, repetitive_words
\* holds only counts above 1 and filler_words has exactly the five vocabulary
\* keys; in a record each key has the number of times the word occurs,
\* normalized, in the record's transcript.
reportShape(fb) ==
  /\ \A w \in DOMAIN fb.repetitive_words : fb.repetitive_words[w] > 1
  /\ DOMAIN fb.filler_words = {uh, ah, um, so, because}

C10_ReportShape ==
  /\ \A k \in DOMAIN document :
       LET fb == document[k].feedback
           ws == normalizedWords(document[k].transcription)
       IN /\ reportShape(fb)
          /\ \A w \in DOMAIN fb.filler_words :
               fb.filler_words[w] = Len(SelectSeq(ws, LAMBDA x : x = w))
  /\ feedbackContent # <<>> => reportShape(feedbackContent[1])

\* C10 witness: a published report with a repeated filler word, an absent
\* one, and words that are no fillers
C10_Witness ==
  \E k \in DOMAIN document :
    LET fb == document[k].feedback
    IN /\ so \in DOMAIN fb.repetitive_words
       /\ fb.filler_words[so] >= 2
       /\ fb.filler_words[because] = 0
       /\ fb.total_word_count > fb.filler_words[so] + fb.filler_words[um]

\* the score formula of a text, from its normalized words alone
expectedScore(n) == IF 100 - 2 * n >= 0 THEN 100 - 2 * n ELSE 0

\* C11: in every published record, presentation is max(100 - 2 * the number
\* of distinct normalized words that occur more than once, 0) and time is
\* max(100 - 2 * the number of filler-word occurrences, 0); both lie in
\* 0..100; "so so so um please move on" gives 98 and 92.
C11_Scores ==
  \A k \in DOMAIN document :
    LET ws == normalizedWords(document[k].transcription)
        repeated == {ws[i] : i \in {j \in DOMAIN ws : \E h \in DOMAIN ws : h # j /\ ws[h] = ws[j]}}
        fillers == Len(SelectSeq(ws, LAMBDA x : x \in {uh, ah, um, so, because}))
        sm == document[k].summary
    IN /\ sm.presentation_score = expectedScore(Cardinality(repeated))
       /\ sm.time_score = expectedScore(fillers)
       /\ sm.presentation_score \in 0..100
       /\ sm.time_score \in 0..100
       /\ document[k].transcription = ExampleText =>
            sm.presentation_score = 98 /\ sm.time_score = 92

\* C11 witness: the example has been published with 98 and 92, or a text with
\* more than 50 filler occurrences and more than 50 repeated words with 0 and 0
C11_Witness ==
  \E k \in DOMAIN document :
    /\ document[k].transcription = ExampleText
    /\ document[k].summary.presentation_score = 98
    /\ document[k].summary.time_score = 92

\* every transcript the engines may answer, and every published one
AllTexts ==
  AnalysisTexts \cup LocalTexts \cup CloudTexts \cup {EmptyText}
    \cup {document[k].transcription : k \in DOMAIN document}

\* C12 as stated: the overall score is the unrounded mean and some transcript
\* has an overall score that is not an integer (such as 87.5).
C12_SomeFractionalOverall ==
  \E t \in AllTexts :
    LET sm == summaryOf(analysis(t))
    IN /\ 2 * sm.overall_score.whole + sm.overall_score.halves
            = sm.presentation_score + sm.time_score
       /\ sm.overall_score.halves = 1

\* C12: in every published record the overall score is the unrounded mean
\* (presentation + time) / 2, and it is a whole number: both scores are
\* even, so no transcript has a fractional overall score.
C12_OverallIsWholeMean ==
  \A k \in DOMAIN document :
    LET sm == document[k].summary
    IN /\ 2 * sm.overall_score.whole + sm.overall_score.halves
            = sm.presentation_score + sm.time_score
       /\ sm.overall_score.halves = 0
       /\ sm.presentation_score % 2 = 0
       /\ sm.time_score % 2 = 0

C12_Witness ==
  \E k \in DOMAIN document :
    /\ document[k].transcription = ExampleText
    /\ document[k].summary.overall_score = [whole |-> 95, halves |-> 0]

\* run r publishes in this step
publishes(r) == pc[r] = "push" /\ response'[r].code = 200

\* C13: a publish writes the key of its clock second and nothing else; the
\* record at that key is afterwards wholly the publishing run's (its
\* transcript, the analysis and the scores of that transcript), whatever an
\* earlier run had written there, so two runs publishing in one second leave
\* one record, the later one's.
C13_LaterWriteWins ==
  /\ [][\A r \in Runs :
          publishes(r) =>
            /\ store'[clock'] = <<text[r]>>
            /\ response'[r].transcript = text[r]
            /\ \A k \in DOMAIN store \ {clock'} : store'[k] = store[k]]_vars
  /\ [](\A k \in DOMAIN document :
          LET d == document[k]
          IN /\ d.feedback = analysis(d.transcription)
             /\ d.summary = summaryOf(d.feedback))

C13_Witness ==
  /\ store_writes[1] = 1
  /\ store_writes[2] = 1
  /\ text[1] # text[2]
  /\ Cardinality(DOMAIN document) = 1
  /\ \E k \in DOMAIN document : document[k] = record(text[2])

\* the positions of t where a whitespace-separated token begins
tokenStarts(t) ==
  {i \in DOMAIN t : t[i] \notin Whitespace /\ (i = 1 \/ t[i - 1] \in Whitespace)}

\* the token of t that begins at position i is made of punctuation only
punctuationOnly(t, i) ==
  /\ t[i] \in StripChars
  /\ \A j \in i..Len(t) :
       (\A h \in i..j : t[h] \notin Whitespace) => t[j] \in StripChars

\* C14: in every published record the total word count is the number of
\* whitespace-separated raw tokens of the transcript, the tokens made only of
\* punctuation included; it is 0 for the empty text.
C14_TotalCountsRawTokens ==
  \A k \in DOMAIN document :
    LET t == document[k].transcription
        total == document[k].feedback.total_word_count
    IN /\ total = Cardinality(tokenStarts(t))
       /\ t = EmptyText => total = 0

C14_Witness ==
  \E k \in DOMAIN document :
    LET t == document[k].transcription
        starts == tokenStarts(t)
    IN /\ \E i \in starts : punctuationOnly(t, i)
       /\ \E i \in starts : ~punctuationOnly(t, i)
       /\ document[k].feedback.total_word_count = Cardinality(starts)

\* the place of each step in upload_audio: before the local engine (0), the
\* local engine (1), the cloud upload (2), the cloud job (3), the polling
\* loop (4), analysis and publish (5..8), answered (9)
stepOrder ==
  [idle |-> 0, convert_read |-> 0, convert_write |-> 0,
   vosk |-> 1,
   cloud_upload |-> 2, cloud_submit |-> 3, poll |-> 4, sleep |-> 4,
   write_transcription |-> 5, save_feedback |-> 6, save_summary |-> 7, push |-> 8,
   done |-> 9]

\* request r is in analyze_and_push
analysing(r) == pc[r] \in {"write_transcription", "save_feedback", "save_summary", "push"}

\* C15: a run never steps back (idle, local engine, then analysis or the
\* cloud upload, job and polling followed by analysis); the cloud is called
\* only after the local engine has returned, and only when its text was
\* rejected; the file is uploaded and the job submitted at most once; analysis
\* starts only from the local engine's accepted answer or from the final poll,
\* and the transcript does not change once analysis has started.
C15_StepOrder ==
  /\ [][\A r \in Runs :
          /\ stepOrder[pc'[r]] >= stepOrder[pc[r]]
          /\ (stepOrder[pc[r]] = 0 /\ pc'[r] # pc[r]) => stepOrder[pc'[r]] \in {0, 1, 9}
          /\ (stepOrder[pc'[r]] = 5 /\ pc[r] # pc'[r]) => pc[r] \in {"vosk", "poll"}
          /\ stepOrder[pc[r]] >= 5 => text'[r] = text[r]]_vars
  /\ [](\A r \in Runs :
          /\ cloud_uploads[r] <= 1
          /\ cloud_submits[r] <= 1
          /\ stepOrder[pc[r]] \in 2..8 => voskReturned(r)
          /\ cloudInvoked(r) => voskReturned(r) /\ needsCloud(vosk_text[r])
          /\ analysing(r) =>
               IF needsCloud(vosk_text[r])
               THEN cloud_submits[r] = 1 /\ status[r] \in {"completed", "failed"}
               ELSE ~cloudInvoked(r) /\ text[r] = vosk_text[r])

C15_Witness ==
  \E r \in Runs :
    /\ pc[r] = "done"
    /\ voskReturned(r)
    /\ needsCloud(vosk_text[r])
    /\ cloud_uploads[r] = 1
    /\ cloud_submits[r] = 1
    /\ status[r] = "completed"
    /\ response[r].code = 200

\* C16: a run writes to the store at most once; it has answered 200 only if
\* its one write is done (the answer comes with the write or after it, never
\* before), a run that failed before the publish step has written nothing, and
\* a run that has not reached the publish step has written nothing.
C16_OneWriteBeforeSuccess ==
  /\ [](\A r \in Runs :
          /\ store_writes[r] <= 1
          /\ response[r].code = 200 => store_writes[r] = 1
          /\ (response[r].code \in {400, 500} /\ response[r].error # "firebase") =>
               store_writes[r] = 0
          /\ pc[r] # "done" => store_writes[r] = 0 /\ response[r] = NoResponse)
  /\ [][\A r \in Runs :
          /\ store_writes'[r] # store_writes[r] => pc[r] = "push" /\ store'[clock'] = <<text[r]>>
          /\ response'[r] # response[r] => response[r] = NoResponse]_vars

C16_Witness ==
  \E r \in Runs :
    /\ pc[r] = "done"
    /\ response[r].code = 200
    /\ store_writes[r] = 1
    /\ \E k \in DOMAIN document : document[k].transcription = text[r]

\* transcribe_with_assemblyai has returned to request r
cloudReturned(r) == status[r] \in {"completed", "failed"}

\* C17: once the cloud call has returned, the run's transcript is the cloud
\* outcome (a cloud text on completed, "" on failed) and never the rejected
\* local text, whatever their lengths; that transcript is the one written to
\* the files, published and returned.
C17_CloudOutcomeIsFinal ==
  /\ [](\A r \in Runs :
          /\ status[r] = "completed" => text[r] \in CloudTexts
          /\ status[r] = "failed" => text[r] = EmptyText
          /\ cloudReturned(r) =>
               /\ voskReturned(r)
               /\ text[r] # vosk_text[r] \/ vosk_text[r] = EmptyText
               /\ response[r].code = 200 => response[r].transcript = text[r])
  /\ [][\A r \in Runs :
          cloudReturned(r) =>
            /\ text'[r] = text[r]
            /\ (pc[r] = "write_transcription" /\ pc'[r] # pc[r]) => transcriptionFile' = text[r]
            /\ (pc[r] = "save_feedback" /\ pc'[r] # pc[r]) => feedbackFile' = <<text[r]>>
            /\ (pc[r] = "save_summary" /\ pc'[r] # pc[r]) => summaryFile' = <<text[r]>>
            /\ publishes(r) => store'[clock'] = <<text[r]>>]_vars

C17_Witness ==
  \E r \in Runs :
    /\ vosk_text[r] = ShortText
    /\ status[r] = "completed"
    /\ text[r] = OneText
    /\ response[r] = [code |-> 200, error |-> None, transcript |-> OneText]
    /\ \E k \in DOMAIN document : document[k].transcription = OneText

\* no request is between its first step and its answer
quiescent == \A r \in Runs : pc[r] \in {"idle", "done"}

\* C18: whenever no run is in progress, transcription.txt, feedback.txt and
\* summary.txt derive from one and the same transcript: the feedback file
\* holds the analysis of the text in the transcription file and the summary
\* file its scores (or the three files are still empty).
C18_FilesFromOneTranscript ==
  quiescent =>
    \/ transcriptionFile = EmptyText /\ feedbackFile = <<>> /\ summaryFile = <<>>
    \/ /\ feedbackContent = <<analysis(transcriptionFile)>>
       /\ summaryContent = <<summaryOf(analysis(transcriptionFile))>>

\* C19: in every published record every key of repetitive_words is a
\* non-empty normalized word, and the presentation score pays only for the
\* non-empty words that occur more than once.
C19_NoEmptyRepetitiveKey ==
  \A k \in DOMAIN document :
    LET rep == document[k].feedback.repetitive_words
    IN /\ <<>> \notin DOMAIN rep
       /\ document[k].summary.presentation_score
            = expectedScore(Cardinality(DOMAIN rep \ {<<>>}))

====
